---------------------------- MODULE Spec2Model ----------------------------
(***************************************************************************)
(* A model of the Rust to-do list program src/src/main.rs: the in-memory  *)
(* task vector, the menu loop of main, the index parsing, and the JSON     *)
(* save / load through tasks.json across successive runs of the program.   *)
(*                                                                         *)
(* Text is modelled as a sequence of one-character strings, so that        *)
(* trimming, integer parsing, JSON escaping and JSON parsing are computed  *)
(* character by character.                                                 *)
(***************************************************************************)
EXTENDS Integers, Sequences, FiniteSets, TLC

VARIABLES
    pc,                \* where main is: "Menu", "AwaitingTaskFields", ... "done"
    tasks,             \* main's tasks: Vec<Task>
    file,              \* content of tasks.json, or NoFile
    serialized_tasks,  \* main's serialized_tasks buffer on the exit path
    out,               \* the status lines printed at load and on the exit path
    panic_msg,         \* the panic message of this run, "" when none
    eof                \* standard input of this run has reached end-of-input

vars == <<pc, tasks, file, serialized_tasks, out, panic_msg, eof>>

---------------------------------------------------------------------------
(* Bounds of the model *)

\* add is not offered once the store holds MaxTasks tasks
MaxTasks == 2

---------------------------------------------------------------------------
(* Characters and text *)

QUOTE == "\""
BACKSLASH == "\\"
TAB == "\t"
NEWLINE == "\n"

\* char::is_whitespace, over the characters of the model
is_whitespace(c) == c \in {" ", TAB, NEWLINE, "\r", "\f"}

RECURSIVE trim_start(_)
trim_start(s) ==
    IF s # <<>> /\ is_whitespace(Head(s)) THEN trim_start(Tail(s)) ELSE s

RECURSIVE trim_end(_)
trim_end(s) ==
    IF s # <<>> /\ is_whitespace(s[Len(s)])
    THEN trim_end(SubSeq(s, 1, Len(s) - 1))
    ELSE s

\* str::trim
trim(s) == trim_end(trim_start(s))

\* read_line: the line read from standard input, trimmed. A read at
\* end-of-input (or a failed read) appends nothing and gives the empty text.
read_line(raw) == trim(raw)

---------------------------------------------------------------------------
(* Task *)

Task(n, d, dd, dn) == [name |-> n, desc |-> d, due_date |-> dd, done |-> dn]

---------------------------------------------------------------------------
(* serde_json::to_string(&tasks) *)

\* serde_json's ESCAPE table: the characters written as a two-character escape
EscapeOf(c) ==
    CASE c = QUOTE     -> <<BACKSLASH, QUOTE>>
      [] c = BACKSLASH -> <<BACKSLASH, BACKSLASH>>
      [] c = NEWLINE   -> <<BACKSLASH, "n">>
      [] c = TAB       -> <<BACKSLASH, "t">>
      [] c = "\r"      -> <<BACKSLASH, "r">>
      [] c = "\f"      -> <<BACKSLASH, "f">>
      [] OTHER         -> <<c>>

RECURSIVE format_escaped_str_contents(_)
format_escaped_str_contents(s) ==
    IF s = <<>> THEN <<>>
    ELSE EscapeOf(Head(s)) \o format_escaped_str_contents(Tail(s))

format_escaped_str(s) == <<QUOTE>> \o format_escaped_str_contents(s) \o <<QUOTE>>

KeyName == <<"n", "a", "m", "e">>
KeyDesc == <<"d", "e", "s", "c">>
KeyDueDate == <<"d", "u", "e", "_", "d", "a", "t", "e">>
KeyDone == <<"d", "o", "n", "e">>
LitTrue == <<"t", "r", "u", "e">>
LitFalse == <<"f", "a", "l", "s", "e">>

\* mutant of serialize_task: the due date is written under the key "due",
\* which the reader does not know
serialize_task_renamed(t) ==
    <<"{">> \o format_escaped_str(KeyName) \o <<":">> \o format_escaped_str(t.name)
    \o <<",">> \o format_escaped_str(KeyDesc) \o <<":">> \o format_escaped_str(t.desc)
    \o <<",">> \o format_escaped_str(<<"d", "u", "e">>) \o <<":">> \o format_escaped_str(t.due_date)
    \o <<",">> \o format_escaped_str(KeyDone) \o <<":">>
    \o (IF t.done THEN LitTrue ELSE LitFalse) \o <<"}">>

\* #[derive(Serialize)] for Task: the four fields in declaration order
serialize_task(t) ==
    <<"{">> \o format_escaped_str(KeyName) \o <<":">> \o format_escaped_str(t.name)
    \o <<",">> \o format_escaped_str(KeyDesc) \o <<":">> \o format_escaped_str(t.desc)
    \o <<",">> \o format_escaped_str(KeyDueDate) \o <<":">> \o format_escaped_str(t.due_date)
    \o <<",">> \o format_escaped_str(KeyDone) \o <<":">>
    \o (IF t.done THEN LitTrue ELSE LitFalse) \o <<"}">>

RECURSIVE serialize_seq(_)
serialize_seq(ts) ==
    IF ts = <<>> THEN <<>>
    ELSE IF Len(ts) = 1 THEN serialize_task(ts[1])
    ELSE serialize_task(ts[1]) \o <<",">> \o serialize_seq(Tail(ts))

to_string(ts) == <<"[">> \o serialize_seq(ts) \o <<"]">>

---------------------------------------------------------------------------
(* serde_json::from_reader::<Vec<Task>> *)

\* A parse step gives [ok |-> TRUE, val |-> v, pos |-> next position] or Failed.
Failed == [ok |-> FALSE]
Parsed(v, p) == [ok |-> TRUE, val |-> v, pos |-> p]

\* Option<T>
None == <<>>
Some(v) == <<v>>

\* the JSON whitespace serde_json skips between tokens
is_json_whitespace(c) == c \in {" ", TAB, NEWLINE, "\r"}

RECURSIVE parse_whitespace(_, _)
parse_whitespace(s, i) ==
    IF i <= Len(s) /\ is_json_whitespace(s[i]) THEN parse_whitespace(s, i + 1) ELSE i

\* the character at position i, or "" past the end of input
peek(s, i) == IF i <= Len(s) THEN s[i] ELSE ""

\* parse_escape: the character a two-character escape stands for
\* (\b and \uXXXX are outside the characters of the model)
is_escape(c) == c \in {QUOTE, BACKSLASH, "/", "n", "t", "r", "f"}
UnescapeOf(c) ==
    CASE c = "n" -> NEWLINE
      [] c = "t" -> TAB
      [] c = "r" -> "\r"
      [] c = "f" -> "\f"
      [] OTHER   -> c

\* a raw control character inside a string is an error in serde_json
is_control(c) == c \in {TAB, NEWLINE, "\r", "\f"}

\* parse_str: i is the position after the opening quote
RECURSIVE parse_str(_, _, _)
parse_str(s, i, acc) ==
    IF i > Len(s) THEN Failed
    ELSE IF s[i] = QUOTE THEN Parsed(acc, i + 1)
    ELSE IF s[i] = BACKSLASH THEN
        IF is_escape(peek(s, i + 1))
        THEN parse_str(s, i + 2, Append(acc, UnescapeOf(s[i + 1])))
        ELSE Failed
    ELSE IF is_control(s[i]) THEN Failed
    ELSE parse_str(s, i + 1, Append(acc, s[i]))

\* deserialize a String: the value at i must be a JSON string
deserialize_string(s, i) ==
    IF peek(s, i) = QUOTE THEN parse_str(s, i + 1, <<>>) ELSE Failed

\* parse_ident: the characters from i on are exactly lit
starts_with(s, i, lit) ==
    /\ i + Len(lit) - 1 <= Len(s)
    /\ SubSeq(s, i, i + Len(lit) - 1) = lit

\* deserialize a bool: the value at i must be true or false
deserialize_bool(s, i) ==
    IF starts_with(s, i, LitTrue) THEN Parsed(TRUE, i + Len(LitTrue))
    ELSE IF starts_with(s, i, LitFalse) THEN Parsed(FALSE, i + Len(LitFalse))
    ELSE Failed

\* #[derive(Deserialize)] for Task, visit_map: the fields seen so far
NoFields == [name |-> None, desc |-> None, due_date |-> None, done |-> None]

FieldOf(key) ==
    CASE key = KeyName    -> "name"
      [] key = KeyDesc    -> "desc"
      [] key = KeyDueDate -> "due_date"
      [] key = KeyDone    -> "done"
      [] OTHER            -> "ignored"

\* the value of one field; an unknown field's value is skipped (IgnoredAny;
\* the model skips string and boolean values)
deserialize_field(s, i, field) ==
    IF field = "done" THEN deserialize_bool(s, i)
    ELSE IF field = "ignored"
    THEN (IF peek(s, i) = QUOTE THEN deserialize_string(s, i) ELSE deserialize_bool(s, i))
    ELSE deserialize_string(s, i)

\* the end of visit_map: every field must have been seen (missing field error)
finish_task(acc, p) ==
    IF acc.name # None /\ acc.desc # None /\ acc.due_date # None /\ acc.done # None
    THEN Parsed(Task(acc.name[1], acc.desc[1], acc.due_date[1], acc.done[1]), p)
    ELSE Failed

\* the members of an object: i is at the first character of a key
RECURSIVE parse_members(_, _, _)
parse_members(s, i, acc) ==
    LET key == deserialize_string(s, i) IN
    IF ~key.ok THEN Failed ELSE
    LET colon == parse_whitespace(s, key.pos) IN
    IF peek(s, colon) # ":" THEN Failed ELSE
    LET field == FieldOf(key.val)
        value == deserialize_field(s, parse_whitespace(s, colon + 1), field) IN
    IF ~value.ok THEN Failed
    ELSE IF field # "ignored" /\ acc[field] # None THEN Failed  \* duplicate field
    ELSE
    LET acc2 == IF field = "ignored" THEN acc
                ELSE [acc EXCEPT ![field] = Some(value.val)]
        sep == parse_whitespace(s, value.pos) IN
    IF peek(s, sep) = "}" THEN finish_task(acc2, sep + 1)
    ELSE IF peek(s, sep) = ","
    THEN parse_members(s, parse_whitespace(s, sep + 1), acc2)
    ELSE Failed

\* deserialize a Task: the value at i must be a JSON object
deserialize_task(s, i) ==
    IF peek(s, i) # "{" THEN Failed
    ELSE LET first == parse_whitespace(s, i + 1) IN
         IF peek(s, first) = "}" THEN finish_task(NoFields, first + 1)
         ELSE parse_members(s, first, NoFields)

\* the elements of an array: i is at the first character of an element
RECURSIVE parse_elements(_, _, _)
parse_elements(s, i, acc) ==
    LET t == deserialize_task(s, i) IN
    IF ~t.ok THEN Failed ELSE
    LET sep == parse_whitespace(s, t.pos) IN
    IF peek(s, sep) = "]" THEN Parsed(Append(acc, t.val), sep + 1)
    ELSE IF peek(s, sep) = ","
    THEN parse_elements(s, parse_whitespace(s, sep + 1), Append(acc, t.val))
    ELSE Failed

\* deserialize a Vec<Task>: the value at i must be a JSON array
deserialize_vec(s, i) ==
    IF peek(s, i) # "[" THEN Failed
    ELSE LET first == parse_whitespace(s, i + 1) IN
         IF peek(s, first) = "]" THEN Parsed(<<>>, first + 1)
         ELSE parse_elements(s, first, <<>>)

\* from_reader: one value, then only whitespace up to the end of input
from_reader(s) ==
    LET v == deserialize_vec(s, parse_whitespace(s, 1)) IN
    IF v.ok /\ parse_whitespace(s, v.pos) = Len(s) + 1 THEN v ELSE Failed

---------------------------------------------------------------------------
(* read_tasks and the start of main *)

\* tasks.json does not exist: a value that is the content of no file (a
\* content is a sequence of single characters)
NoFile == <<"NoFile">>

\* read_tasks: Err when the file cannot be opened or cannot be parsed
read_tasks(f) == IF f = NoFile THEN Failed ELSE from_reader(f)

\* main, lines 19-28: the store a run starts with
LoadedTasks(f) == IF read_tasks(f).ok THEN read_tasks(f).val ELSE <<>>

MsgLoaded == "loaded tasks from tasks.json"
MsgNotLoaded == "tasks.json is empty, no tasks loaded."
LoadMessage(f) == IF read_tasks(f).ok THEN MsgLoaded ELSE MsgNotLoaded

\* mutant of StartPc: a failed load is unwrapped, so the run ends at once
StartPc_unwrap(f) == IF read_tasks(f).ok THEN "Menu" ELSE "panicked"

\* main, lines 19-31: both arms of the match go on to the menu loop
StartPc(f) == "Menu"

---------------------------------------------------------------------------
(* The task store operations *)

\* mutant of add_task: the new task is inserted first
add_task_front(ts, new_task) == <<new_task>> \o ts

\* add_task: tasks.push(new_task)
add_task(ts, new_task) == Append(ts, new_task)

\* create_task: the Task built from the three lines read, done = false
create_task(n, d, dd) == Task(n, d, dd, FALSE)

\* mutant of complete_task: every task up to the index is marked
complete_task_upto(ts, index) ==
    [i \in 1..Len(ts) |-> IF i <= index + 1 THEN [ts[i] EXCEPT !.done = TRUE] ELSE ts[i]]

\* mutant of complete_task: the done flag is flipped
complete_task_toggle(ts, index) ==
    IF index < Len(ts)
    THEN [ts EXCEPT ![index + 1].done = ~@]
    ELSE ts

\* mutant of complete_task: the task is rebuilt, without its description
complete_task_rebuilt(ts, index) ==
    IF index < Len(ts)
    THEN [ts EXCEPT ![index + 1] = Task(@.name, <<>>, @.due_date, TRUE)]
    ELSE ts

\* complete_task: index is 0-based; tasks.get_mut(index) is None past the end
complete_task(ts, index) ==
    IF index < Len(ts) THEN [ts EXCEPT ![index + 1].done = TRUE] ELSE ts

\* mutant of delete_task: the last task is removed (tasks.pop())
delete_task_pop(ts, index) ==
    IF index < Len(ts) THEN SubSeq(ts, 1, Len(ts) - 1) ELSE ts

\* delete_task: index is 0-based; tasks.remove(index) shifts the rest down
delete_task(ts, index) ==
    IF index < Len(ts)
    THEN SubSeq(ts, 1, index) \o SubSeq(ts, index + 2, Len(ts))
    ELSE ts

\* mutant of remove_complete_tasks: the completed tasks are the ones kept
IsDone(t) == t.done
remove_complete_tasks_inverted(ts) == SelectSeq(ts, IsDone)

\* mutant of remove_complete_tasks: only the first completed task is removed
RECURSIVE remove_complete_tasks_first(_)
remove_complete_tasks_first(ts) ==
    IF ts = <<>> THEN <<>>
    ELSE IF Head(ts).done THEN Tail(ts)
    ELSE <<Head(ts)>> \o remove_complete_tasks_first(Tail(ts))

\* remove_complete_tasks: tasks.retain(|task| !task.done)
RECURSIVE remove_complete_tasks(_)
remove_complete_tasks(ts) ==
    IF ts = <<>> THEN <<>>
    ELSE IF ~Head(ts).done
    THEN <<Head(ts)>> \o remove_complete_tasks(Tail(ts))
    ELSE remove_complete_tasks(Tail(ts))

\* mutant of view_tasks: the listing takes the tasks out of the store
view_tasks_drain(ts) == <<>>

\* view_tasks: the store after the listing is printed (it takes &Vec<Task>)
view_tasks(ts) == ts

---------------------------------------------------------------------------
(* read_index_input *)

\* stands for usize::MAX: the largest integer of the model checker; the code
\* only compares it with tasks.len(), which it always exceeds
usize_MAX == 2147483647

Digits == <<"0", "1", "2", "3", "4", "5", "6", "7", "8", "9">>
is_digit(c) == \E d \in 1..10 : Digits[d] = c
to_digit(c) == (CHOOSE d \in 1..10 : Digits[d] = c) - 1

\* the digits of usize::from_str, with its checked multiply and add
RECURSIVE parse_digits(_, _)
parse_digits(s, acc) ==
    IF s = <<>> THEN Some(acc)
    ELSE IF ~is_digit(Head(s)) THEN None
    ELSE IF acc > (usize_MAX - to_digit(Head(s))) \div 10 THEN None
    ELSE parse_digits(Tail(s), acc * 10 + to_digit(Head(s)))

\* str::parse::<usize>: empty text, a lone sign and "-" are errors, "+" is skipped
parse_usize(s) ==
    IF s = <<>> \/ s = <<"+">> \/ s = <<"-">> THEN None
    ELSE IF Head(s) = "+" THEN parse_digits(Tail(s), 0)
    ELSE parse_digits(s, 0)

\* read_index_input on the line read. `num - 1` on num = 0 panics when the
\* build has overflow checks (debug) and wraps to usize::MAX when it has not
\* (release).
read_index_input(ts, line, overflow_checks) ==
    LET parsed == parse_usize(line) IN
    IF parsed = None THEN [kind |-> "None"]
    ELSE IF parsed[1] = 0 /\ overflow_checks THEN [kind |-> "Panic"]
    ELSE LET index == IF parsed[1] = 0 THEN usize_MAX ELSE parsed[1] - 1 IN
         IF index >= Len(ts) THEN [kind |-> "None"]
         ELSE [kind |-> "Some", index |-> index]

---------------------------------------------------------------------------
(* Standard input *)

Line(s) == s \o <<NEWLINE>>

\* the lines typed at the menu prompt
MenuLines ==
    { Line(<<"1">>), Line(<<" ", "2">>), Line(<<"3">>), Line(<<"4", " ">>),
      Line(<<>>), Line(<<"5">>), Line(<<"q">>), Line(<<"1", "2">>) }

\* the lines typed for a new task's name, description and due date
NameLines == { Line(<<" ", QUOTE, "a", " ">>) }
DescLines == { Line(<<BACKSLASH, TAB, "b">>) }
DueDateLines == { Line(<<"1">>), Line(<<>>) }

\* the lines typed at an index prompt
IndexLines ==
    { Line(<<"a">>), Line(<<"-", "1">>), Line(<<>>), Line(<<"0">>),
      Line(<<"+", "1">>) }
    \cup { Line(<<Digits[n + 1]>>) : n \in 1..(MaxTasks + 1) }

\* what one read of standard input can give: a line of S, or nothing at
\* end-of-input; after end-of-input every read gives nothing
Stdin(S) == IF eof THEN {<<>>} ELSE S \cup {<<>>}

\* the same for a read that follows the read of prev within one step
StdinAfter(prev, S) == IF prev = <<>> THEN {<<>>} ELSE S \cup {<<>>}

---------------------------------------------------------------------------
(* The states of the session loop *)

ExitPath == {"Serialize", "Create", "Write"}
Stopped == {"done", "panicked", "crashed"}

SessionState(p) ==
    CASE p = "Menu" -> "Menu"
      [] p = "AwaitingTaskFields" -> "AwaitingTaskFields"
      [] p \in {"AwaitingIndexComplete", "AwaitingIndexDelete"} -> "AwaitingIndexSelection"
      [] p \in ExitPath \cup {"done"} -> "Exiting"
      [] OTHER -> "Aborted"

\* the status lines of main
MsgRemoving == "Removing completed tasks..."
MsgRemoved == "Completed tasks removed"
MsgSerializing == "Serializing data..."
MsgSerialized == "Data serialized"
MsgCreating == "Creating file..."
MsgCreated == "File created"
MsgSaving == "Saving work..."
MsgSaved == "Work saved"
MsgExiting == "Exiting successfully"

PanicOverflow == "attempt to subtract with overflow"
PanicCreate == "File creation failed"
PanicWrite == "Writing to file failed"

\* a file written by hand: one completed task, its fields in another order,
\* with white space between the tokens
HandWrittenFile ==
    <<"[", "{">> \o format_escaped_str(KeyDone) \o <<":", " ">> \o LitTrue
    \o <<",">> \o format_escaped_str(KeyDueDate) \o <<":">> \o format_escaped_str(<<>>)
    \o <<",", NEWLINE>> \o format_escaped_str(KeyName) \o <<":">> \o format_escaped_str(<<QUOTE, "a">>)
    \o <<",">> \o format_escaped_str(KeyDesc) \o <<":">> \o format_escaped_str(<<BACKSLASH, TAB, "b">>)
    \o <<"}", "]">>

\* the files tasks.json may hold before the first run: none, an empty file,
\* an empty list, a file cut short, and a file written by hand
InitialFiles ==
    { NoFile,
      <<>>,
      <<"[", " ", "]", NEWLINE>>,
      SubSeq(to_string(<<Task(<<QUOTE, "a">>, <<>>, <<"1">>, FALSE)>>), 1, 20),
      HandWrittenFile }

\* the first run, from its start to the first prompt (main, lines 17-35)
Init ==
    /\ file \in InitialFiles
    /\ tasks = LoadedTasks(file)
    /\ out = <<LoadMessage(file)>>
    /\ pc = StartPc(file)
    /\ serialized_tasks = <<>>
    /\ panic_msg = ""
    /\ eof = FALSE

---------------------------------------------------------------------------
(* The menu loop of main. Each step reads its line(s) raw from standard    *)
(* input; overflow_checks is whether the build checks integer overflow.    *)

\* line 35: the menu line is read
ReadsMenuLine(raw) ==
    /\ pc = "Menu"
    /\ raw \in Stdin(MenuLines)
    /\ eof' = (raw = <<>>)

\* "1": view_tasks, back to the menu
MenuView(raw) ==
    /\ ReadsMenuLine(raw)
    /\ read_line(raw) = <<"1">>
    /\ tasks' = view_tasks(tasks)
    /\ UNCHANGED <<pc, file, serialized_tasks, out, panic_msg>>

\* "2": create_task starts and prompts for the name
MenuAdd(raw) ==
    /\ ReadsMenuLine(raw)
    /\ read_line(raw) = <<"2">>
    /\ Len(tasks) < MaxTasks
    /\ pc' = "AwaitingTaskFields"
    /\ UNCHANGED <<tasks, file, serialized_tasks, out, panic_msg>>

\* mutant of ReadTaskFields: the store is saved as soon as a task is added
ReadTaskFields_autosave(raw_name, raw_desc, raw_due_date) ==
    /\ pc = "AwaitingTaskFields"
    /\ raw_name \in Stdin(NameLines)
    /\ raw_desc \in StdinAfter(raw_name, DescLines)
    /\ raw_due_date \in StdinAfter(raw_desc, DueDateLines)
    /\ tasks' = add_task(tasks, create_task(read_line(raw_name),
                                            read_line(raw_desc),
                                            read_line(raw_due_date)))
    /\ file' = to_string(tasks')
    /\ eof' = (raw_due_date = <<>>)
    /\ pc' = "Menu"
    /\ UNCHANGED <<serialized_tasks, out, panic_msg>>

\* create_task reads the name, the description and the due date (lines
\* 116, 119, 122) and builds the task; add_task; back to the menu
ReadTaskFields(raw_name, raw_desc, raw_due_date) ==
    /\ pc = "AwaitingTaskFields"
    /\ raw_name \in Stdin(NameLines)
    /\ raw_desc \in StdinAfter(raw_name, DescLines)
    /\ raw_due_date \in StdinAfter(raw_desc, DueDateLines)
    /\ tasks' = add_task(tasks, create_task(read_line(raw_name),
                                            read_line(raw_desc),
                                            read_line(raw_due_date)))
    /\ eof' = (raw_due_date = <<>>)
    /\ pc' = "Menu"
    /\ UNCHANGED <<file, serialized_tasks, out, panic_msg>>

\* "3": view_tasks, then the index prompt
MenuComplete(raw) ==
    /\ ReadsMenuLine(raw)
    /\ read_line(raw) = <<"3">>
    /\ tasks' = view_tasks(tasks)
    /\ pc' = "AwaitingIndexComplete"
    /\ UNCHANGED <<file, serialized_tasks, out, panic_msg>>

\* "4": view_tasks, then the index prompt
MenuDelete(raw) ==
    /\ ReadsMenuLine(raw)
    /\ read_line(raw) = <<"4">>
    /\ tasks' = view_tasks(tasks)
    /\ pc' = "AwaitingIndexDelete"
    /\ UNCHANGED <<file, serialized_tasks, out, panic_msg>>

\* lines 50 and 62: the index line is read
ReadsIndexLine(raw) ==
    /\ pc \in {"AwaitingIndexComplete", "AwaitingIndexDelete"}
    /\ raw \in Stdin(IndexLines)
    /\ eof' = (raw = <<>>)

\* lines 50-51: Some(index), complete_task, back to the menu
SelectComplete(raw, overflow_checks) ==
    /\ ReadsIndexLine(raw)
    /\ pc = "AwaitingIndexComplete"
    /\ LET r == read_index_input(tasks, read_line(raw), overflow_checks) IN
        /\ r.kind = "Some"
        /\ tasks' = complete_task(tasks, r.index)
    /\ pc' = "Menu"
    /\ UNCHANGED <<file, serialized_tasks, out, panic_msg>>

\* lines 62-63: Some(index), delete_task, back to the menu
SelectDelete(raw, overflow_checks) ==
    /\ ReadsIndexLine(raw)
    /\ pc = "AwaitingIndexDelete"
    /\ LET r == read_index_input(tasks, read_line(raw), overflow_checks) IN
        /\ r.kind = "Some"
        /\ tasks' = delete_task(tasks, r.index)
    /\ pc' = "Menu"
    /\ UNCHANGED <<file, serialized_tasks, out, panic_msg>>

\* lines 52-54 and 64-66: None, continue
IndexRejected(raw, overflow_checks) ==
    /\ ReadsIndexLine(raw)
    /\ read_index_input(tasks, read_line(raw), overflow_checks).kind = "None"
    /\ pc' = "Menu"
    /\ UNCHANGED <<tasks, file, serialized_tasks, out, panic_msg>>

\* line 137: the subtraction overflows and the process panics
IndexPanics(raw, overflow_checks) ==
    /\ ReadsIndexLine(raw)
    /\ read_index_input(tasks, read_line(raw), overflow_checks).kind = "Panic"
    /\ pc' = "panicked"
    /\ panic_msg' = PanicOverflow
    /\ UNCHANGED <<tasks, file, serialized_tasks, out>>

\* the step taken on the index line raw
IndexInput(raw, overflow_checks) ==
    \/ SelectComplete(raw, overflow_checks)
    \/ SelectDelete(raw, overflow_checks)
    \/ IndexRejected(raw, overflow_checks)
    \/ IndexPanics(raw, overflow_checks)

---------------------------------------------------------------------------
(* The exit path of main, lines 70-90 *)

\* mutant of MenuExit: a blank line does not start the exit path
MenuExit_nonblank(raw) ==
    /\ ReadsMenuLine(raw)
    /\ read_line(raw) \notin {<<"1">>, <<"2">>, <<"3">>, <<"4">>, <<>>}
    /\ tasks' = remove_complete_tasks(tasks)
    /\ out' = out \o <<MsgRemoving, MsgRemoved>>
    /\ pc' = "Serialize"
    /\ UNCHANGED <<file, serialized_tasks, panic_msg>>

\* any other line: the exit path starts and purges the completed tasks
\* (lines 70-73)
MenuExit(raw) ==
    /\ ReadsMenuLine(raw)
    /\ read_line(raw) \notin {<<"1">>, <<"2">>, <<"3">>, <<"4">>}
    /\ tasks' = remove_complete_tasks(tasks)
    /\ out' = out \o <<MsgRemoving, MsgRemoved>>
    /\ pc' = "Serialize"
    /\ UNCHANGED <<file, serialized_tasks, panic_msg>>

\* the step taken on the menu line raw
MenuInput(raw) ==
    \/ MenuView(raw)
    \/ MenuAdd(raw)
    \/ MenuComplete(raw)
    \/ MenuDelete(raw)
    \/ MenuExit(raw)

\* lines 75-77 (to_string has no error for a Vec of strings and booleans)
Serialize ==
    /\ pc = "Serialize"
    /\ serialized_tasks' = to_string(tasks)
    /\ out' = out \o <<MsgSerializing, MsgSerialized>>
    /\ pc' = "Create"
    /\ UNCHANGED <<tasks, file, panic_msg, eof>>

\* lines 79-83: File::create makes the file or truncates it
Create ==
    /\ pc = "Create"
    /\ file' = <<>>
    /\ out' = out \o <<MsgCreating, MsgCreated, MsgSaving>>
    /\ pc' = "Write"
    /\ UNCHANGED <<tasks, serialized_tasks, panic_msg, eof>>

\* lines 79-80: File::create fails and expect panics
CreateFails ==
    /\ pc = "Create"
    /\ out' = out \o <<MsgCreating>>
    /\ panic_msg' = PanicCreate
    /\ pc' = "panicked"
    /\ UNCHANGED <<tasks, file, serialized_tasks, eof>>

\* mutant of Write: main goes on after the first write, whatever it wrote
\* (write in place of write_all)
Write_once ==
    /\ pc = "Write"
    /\ LET rest == Len(serialized_tasks) - Len(file) IN
       \E n \in {rest, (rest + 1) \div 2} :
        file' = file \o SubSeq(serialized_tasks, Len(file) + 1, Len(file) + n)
    /\ out' = out \o <<MsgSaved, MsgExiting>>
    /\ pc' = "done"
    /\ UNCHANGED <<tasks, serialized_tasks, panic_msg, eof>>

\* lines 84-89: write_all writes the buffer in one or more writes; when the
\* last byte is written main prints its last lines and returns
Write ==
    /\ pc = "Write"
    /\ LET rest == Len(serialized_tasks) - Len(file) IN
       \E n \in {rest, (rest + 1) \div 2} :
        /\ file' = file \o SubSeq(serialized_tasks, Len(file) + 1, Len(file) + n)
        /\ IF n = rest
           THEN /\ out' = out \o <<MsgSaved, MsgExiting>>
                /\ pc' = "done"
           ELSE UNCHANGED <<out, pc>>
    /\ UNCHANGED <<tasks, serialized_tasks, panic_msg, eof>>

\* mutant of WriteFails: the error of write_all is dropped and main goes on
WriteFails_ignored ==
    /\ pc = "Write"
    /\ out' = out \o <<MsgSaved, MsgExiting>>
    /\ pc' = "done"
    /\ UNCHANGED <<tasks, file, serialized_tasks, panic_msg, eof>>

\* line 84-85: a write fails and expect panics
WriteFails ==
    /\ pc = "Write"
    /\ panic_msg' = PanicWrite
    /\ pc' = "panicked"
    /\ UNCHANGED <<tasks, file, serialized_tasks, out, eof>>

---------------------------------------------------------------------------
(* Successive runs *)

\* the program is started again after a run has ended: main, lines 17-35
Launch ==
    /\ pc \in Stopped
    /\ tasks' = LoadedTasks(file)
    /\ out' = <<LoadMessage(file)>>
    /\ pc' = StartPc(file)
    /\ serialized_tasks' = <<>>
    /\ panic_msg' = ""
    /\ eof' = FALSE
    /\ UNCHANGED file

\* the process is killed on the exit path
Crash ==
    /\ pc \in ExitPath
    /\ pc' = "crashed"
    /\ UNCHANGED <<tasks, file, serialized_tasks, out, panic_msg, eof>>

Next ==
    \/ \E raw \in MenuLines \cup {<<>>} : MenuInput(raw)
    \/ \E raw_name \in NameLines \cup {<<>>},
          raw_desc \in DescLines \cup {<<>>},
          raw_due_date \in DueDateLines \cup {<<>>} :
            ReadTaskFields(raw_name, raw_desc, raw_due_date)
    \/ \E raw \in IndexLines \cup {<<>>}, overflow_checks \in BOOLEAN :
            IndexInput(raw, overflow_checks)
    \/ Serialize
    \/ Create
    \/ CreateFails
    \/ Write
    \/ WriteFails
    \/ Launch

Spec == Init /\ [][Next]_vars

\* the program, and a process that may be killed on its exit path
NextCrash == Next \/ Crash

SpecCrash == Init /\ [][NextCrash]_vars

\* a read of the session: standard input always answers a read, with a line
\* or with end-of-input (lines 35, 116-122, 136)
ReadStep ==
    \/ \E raw \in MenuLines \cup {<<>>} : MenuInput(raw)
    \/ \E raw_name \in NameLines \cup {<<>>},
          raw_desc \in DescLines \cup {<<>>},
          raw_due_date \in DueDateLines \cup {<<>>} :
            ReadTaskFields(raw_name, raw_desc, raw_due_date)
    \/ \E raw \in IndexLines \cup {<<>>}, overflow_checks \in BOOLEAN :
            IndexInput(raw, overflow_checks)

\* the program when its process keeps running: a pending read returns
SpecFair == Spec /\ WF_vars(ReadStep)

---------------------------------------------------------------------------
(* Claims *)

\* the tasks of ts that are not done, in their order
NotDone(t) == ~t.done
Remaining(ts) == SelectSeq(ts, NotDone)

\* two task sequences equal in length, in order and in all four fields
SameTasks(a, b) ==
    /\ Len(a) = Len(b)
    /\ \A i \in 1..Len(a) :
        /\ a[i].name = b[i].name
        /\ a[i].desc = b[i].desc
        /\ a[i].due_date = b[i].due_date
        /\ a[i].done = b[i].done

\* C1: round trip across runs. When a run has ended normally, having saved
\* its store T to tasks.json, the store the next run starts with equals T in
\* length, order and all four fields of every task.
C1_RoundTrip ==
    [][(pc = "done" /\ pc' = "Menu")
        => (SameTasks(tasks', tasks) /\ out' = <<MsgLoaded>>)]_vars

\* C1 witness: a run was started from a saved file holding two tasks, one of
\* them with the quote and the other characters that need escaping
C1_Witness ==
    /\ pc = "Menu"
    /\ out = <<MsgLoaded>>
    /\ Len(tasks) = 2
    /\ file = to_string(tasks)
    /\ tasks[1].name = <<QUOTE, "a">>
    /\ tasks[1].desc = <<BACKSLASH, TAB, "b">>

\* the status lines of a complete exit path, in the order of main
ExitLines ==
    <<MsgRemoving, MsgRemoved, MsgSerializing, MsgSerialized,
      MsgCreating, MsgCreated, MsgSaving, MsgSaved, MsgExiting>>

\* C2: the exit path runs purge, serialize, overwrite, terminate in that
\* order: the step that enters it keeps exactly the tasks that are not done,
\* in order; no later step changes the store; the buffer is written only
\* after it was serialized from the purged store, the file is touched only
\* after that; normal termination comes only from the completed write, and
\* then the file holds exactly the purged store and every status line has
\* been printed in order.
C2_ExitPathOrder ==
    [][/\ (pc = "Menu" /\ SessionState(pc') = "Exiting")
            => (pc' = "Serialize" /\ tasks' = Remaining(tasks) /\ file' = file)
       /\ (pc = "Serialize" /\ pc' \notin {"panicked", "crashed"})
            => (pc' = "Create" /\ tasks' = tasks /\ file' = file
                /\ from_reader(serialized_tasks').ok
                /\ SameTasks(from_reader(serialized_tasks').val, tasks))
       /\ (pc = "Create" /\ pc' \notin {"panicked", "crashed"})
            => (pc' = "Write" /\ tasks' = tasks
                /\ serialized_tasks' = serialized_tasks)
       /\ (pc = "Write" /\ pc' \notin {"panicked", "crashed"})
            => (pc' \in {"Write", "done"} /\ tasks' = tasks
                /\ serialized_tasks' = serialized_tasks)
       /\ (pc' = "done")
            => /\ pc = "Write"
               /\ from_reader(file').ok
               /\ SameTasks(from_reader(file').val, tasks)
               /\ \A i \in 1..Len(tasks) : ~tasks[i].done
               /\ SubSeq(out', 2, Len(out')) = ExitLines
      ]_vars

\* C2 witness: a run has ended normally and its file holds two tasks
C2_Witness ==
    /\ pc = "done"
    /\ Len(tasks) = 2
    /\ file = serialized_tasks
    /\ out = <<MsgLoaded>> \o ExitLines

\* the line that types the number p (1..9)
NumberLine(p) == Line(<<Digits[p + 1]>>)

\* the text of a raw line without its leading and trailing white space,
\* stated by positions: everything outside i..j is white space and the ends
\* of i..j are not
TextOf(raw) ==
    LET ij == CHOOSE ij \in (1..(Len(raw) + 1)) \X (0..Len(raw)) :
                /\ \A k \in 1..Len(raw) :
                      (k < ij[1] \/ k > ij[2]) => is_whitespace(raw[k])
                /\ \/ ij[1] > ij[2]
                   \/ (~is_whitespace(raw[ij[1]]) /\ ~is_whitespace(raw[ij[2]]))
    IN SubSeq(raw, ij[1], ij[2])

\* the index lines that name no position of the store ts: not a number,
\* negative, blank, end-of-input, zero, or greater than the length
InvalidIndexLines(ts) ==
    { Line(<<"a">>), Line(<<"-", "1">>), Line(<<>>), <<>>, Line(<<"0">>) }
    \cup { NumberLine(n) : n \in (Len(ts) + 1)..(MaxTasks + 1) }

\* C3: after "3" or "4", every index line that is not a number, is negative,
\* zero or greater than the length leaves the store unchanged and returns
\* the session to Menu; complete_task and delete_task with a 0-based index
\* >= length leave the store unchanged.
C3_InvalidIndexRejected ==
    /\ [][\A raw \in InvalidIndexLines(tasks), overflow_checks \in BOOLEAN :
            IndexInput(raw, overflow_checks) => (tasks' = tasks /\ pc' = "Menu")]_vars
    /\ [](\A index \in Len(tasks)..(MaxTasks + 1) :
            /\ complete_task(tasks, index) = tasks
            /\ delete_task(tasks, index) = tasks)

\* C4: completing a valid position p sets done on exactly the task shown at
\* p; the other tasks, the length and order, and the other three fields of
\* the task at p are unchanged.
C4_CompleteFrame ==
    [][(pc = "AwaitingIndexComplete") =>
       \A p \in 1..Len(tasks), overflow_checks \in BOOLEAN :
        IndexInput(NumberLine(p), overflow_checks)
        => /\ Len(tasks') = Len(tasks)
           /\ tasks'[p].done = TRUE
           /\ tasks'[p].name = tasks[p].name
           /\ tasks'[p].desc = tasks[p].desc
           /\ tasks'[p].due_date = tasks[p].due_date
           /\ \A i \in 1..Len(tasks) : i # p => tasks'[i] = tasks[i]
           /\ pc' = "Menu"]_vars

\* C4 witness: of two tasks in a store, the second has been completed and
\* the first has not
C4_Witness ==
    /\ pc = "Menu"
    /\ Len(tasks) = 2
    /\ ~tasks[1].done
    /\ tasks[2].done

\* C5: deleting a valid position p removes exactly the task shown at p: the
\* length drops by one, the tasks before p stay, the tasks after p move down
\* by one, and the fields of the surviving tasks are preserved.
C5_DeleteShifts ==
    [][(pc = "AwaitingIndexDelete") =>
       \A p \in 1..Len(tasks), overflow_checks \in BOOLEAN :
        IndexInput(NumberLine(p), overflow_checks)
        => /\ Len(tasks') = Len(tasks) - 1
           /\ \A i \in 1..(p - 1) : tasks'[i] = tasks[i]
           /\ \A i \in (p + 1)..Len(tasks) : tasks'[i - 1] = tasks[i]
           /\ pc' = "Menu"]_vars

\* C5 witness: the run loaded the one completed task of the hand-written
\* file, a second task was added, and position 1 was deleted: the store
\* holds only the second task, at position 1
C5_Witness ==
    /\ pc = "Menu"
    /\ file = HandWrittenFile
    /\ Len(tasks) = 1
    /\ ~tasks[1].done
    /\ tasks[1].due_date = <<"1">>

\* C6: the purge removes all and only the done tasks, keeps the others in
\* their order with all fields, and purging its result again changes nothing.
C6_PurgeCompleted ==
    [][(pc = "Menu" /\ pc' = "Serialize")
        => /\ tasks' = Remaining(tasks)
           /\ \A i \in 1..Len(tasks') : ~tasks'[i].done
           /\ Len(tasks') = Cardinality({i \in 1..Len(tasks) : ~tasks[i].done})
           /\ remove_complete_tasks(tasks') = tasks']_vars

\* C6 witness: the purge has just run in a session that loaded the completed
\* task of the hand-written file, and has left one task that is not done
C6_Witness ==
    /\ pc = "Serialize"
    /\ file = HandWrittenFile
    /\ Len(tasks) = 1
    /\ ~tasks[1].done
    /\ out = <<MsgLoaded, MsgRemoving, MsgRemoved>>

\* C7: add appends: the length grows by one, the new task is last, not done,
\* with exactly the three texts entered (empty texts accepted), the tasks
\* already present keep their positions and fields, and the session is back
\* in Menu.
C7_AddAppends ==
    [][\A raw_name \in NameLines \cup {<<>>},
          raw_desc \in DescLines \cup {<<>>},
          raw_due_date \in DueDateLines \cup {<<>>} :
        ReadTaskFields(raw_name, raw_desc, raw_due_date)
        => /\ Len(tasks') = Len(tasks) + 1
           /\ SubSeq(tasks', 1, Len(tasks)) = tasks
           /\ tasks'[Len(tasks')].name = TextOf(raw_name)
           /\ tasks'[Len(tasks')].desc = TextOf(raw_desc)
           /\ tasks'[Len(tasks')].due_date = TextOf(raw_due_date)
           /\ tasks'[Len(tasks')].done = FALSE
           /\ pc' = "Menu"]_vars

\* C7 witness: two adds on the empty store of a first run without a file;
\* the second task has an empty due date
C7_Witness ==
    /\ pc = "Menu"
    /\ file = NoFile
    /\ Len(tasks) = 2
    /\ tasks[1].due_date = <<"1">>
    /\ tasks[2].due_date = <<>>
    /\ ~eof

\* C8: in Menu every line other than "1", "2", "3", "4" moves the session to
\* Exiting; "1" stays in Menu, "2" and "3"/"4" go through the field and index
\* prompts, and each of them ends with the session back in Menu.
C8_MenuDispatch ==
    [][/\ \A raw \in MenuLines \cup {<<>>} :
            MenuInput(raw)
            => CASE TextOf(raw) = <<"1">> -> SessionState(pc') = "Menu"
                 [] TextOf(raw) = <<"2">> -> SessionState(pc') = "AwaitingTaskFields"
                 [] TextOf(raw) \in {<<"3">>, <<"4">>} ->
                        SessionState(pc') = "AwaitingIndexSelection"
                 [] OTHER -> SessionState(pc') = "Exiting"
       /\ (SessionState(pc) \in {"AwaitingTaskFields", "AwaitingIndexSelection"})
            => (SessionState(pc') = "Menu")]_vars

\* C9: the session stops only through the exit path: the process never ends
\* from Menu, AwaitingTaskFields or AwaitingIndexSelection.
C9_StopsOnlyByExit ==
    [][(SessionState(pc) \in {"Menu", "AwaitingTaskFields", "AwaitingIndexSelection"})
        => (pc' \notin Stopped)]_vars

\* C10: a crash on the exit path leaves tasks.json with the complete prior
\* content or the complete new serialization: on the exit path the file
\* changes only by becoming the whole new serialization, and when the run
\* had loaded the prior file, the file a crash leaves is still a whole list.
C10_CrashSafeSave ==
    /\ [][(pc \in ExitPath)
            => (file' = file \/ (file' = serialized_tasks /\ file' = to_string(tasks)))]_vars
    /\ [](pc = "crashed" /\ out[1] = MsgLoaded => read_tasks(file).ok)

Interactive == {"Menu", "AwaitingTaskFields", "AwaitingIndexSelection"}

\* C11: a tasks.json that exists but does not parse is told apart from a
\* missing one and is fatal: no session is ever at a prompt while the file it
\* started from exists and cannot be parsed.
C11_MalformedIsFatal ==
    (SessionState(pc) \in Interactive) => (file = NoFile \/ read_tasks(file).ok)

\* C12: a launch with no tasks.json is not an error: the run starts at the
\* menu with the empty store and no panic, and the menu then takes input.
C12_MissingFileStartsEmpty ==
    /\ [][(pc \in Stopped /\ file = NoFile)
            => (pc' = "Menu" /\ tasks' = <<>> /\ panic_msg' = ""
                /\ out' = <<MsgNotLoaded>>)]_vars
    /\ [](file = NoFile /\ out = <<MsgNotLoaded>> /\ panic_msg = ""
            => /\ SessionState(pc) \in Interactive
               /\ pc = "Menu" => ENABLED (\E raw \in MenuLines \cup {<<>>} : MenuInput(raw)))

\* a run that started without a file has added a task and is back at the menu
C12_Witness ==
    /\ file = NoFile
    /\ pc = "Menu"
    /\ out = <<MsgNotLoaded>>
    /\ Len(tasks) = 1

Emitted(msg) == \E i \in 1..Len(out) : out[i] = msg

\* C13: when a step of the exit path fails the run never reports success: a
\* run ended by a panic has its panic message and has printed neither "Work
\* saved" nor "Exiting successfully", and a run that has printed either line
\* ended normally, with no panic and with the whole serialization in the file.
C13_NoSuccessAfterFailure ==
    /\ pc = "panicked"
        => (panic_msg # "" /\ ~Emitted(MsgSaved) /\ ~Emitted(MsgExiting))
    /\ (Emitted(MsgSaved) \/ Emitted(MsgExiting))
        => (pc = "done" /\ panic_msg = "" /\ file = serialized_tasks
            /\ file = to_string(tasks))

\* a write failed after part of the buffer had been written
C13_Witness ==
    /\ pc = "panicked"
    /\ panic_msg = PanicWrite
    /\ file # <<>>
    /\ file # serialized_tasks

\* C14: a task completed in a session and not deleted is absent from the
\* store the next launch loads after a normal exit, and every task that was
\* not done is present. Step by step: entering the exit path leaves exactly
\* the tasks that are not done, in order; the exit path does not touch the
\* store; and the launch after the normal end loads that same store, from a
\* file that is its serialization, with no completed task in it.
C14_CompletedGoneNextLaunch ==
    [][/\ (pc = "Menu" /\ SessionState(pc') \notin Interactive)
            => /\ pc' = "Serialize"
               /\ tasks' = Remaining(tasks)
               /\ \A i \in 1..Len(tasks) :
                    tasks[i].done => \A j \in 1..Len(tasks') : tasks'[j] # tasks[i]
       /\ (pc \in ExitPath) => (tasks' = tasks)
       /\ (pc = "done")
            => /\ pc' = "Menu"
               /\ file = to_string(tasks)
               /\ tasks' = tasks
               /\ \A j \in 1..Len(tasks') : ~tasks'[j].done]_vars

\* the launch after a normal exit that saved the empty store: the scenario
\* add one task, complete 1, exit, launch again ends here
C14_Witness ==
    /\ pc = "Menu"
    /\ out = <<MsgLoaded>>
    /\ tasks = <<>>
    /\ file = <<"[", "]">>

\* C15: tasks.json is written on the exit path only: every step taken at the
\* menu, at the task field prompts or at an index prompt, whatever the line
\* read, leaves the file as it is, and a step that changes the file is the
\* creation or a write of the exit path.
C15_FileOnlyOnExitPath ==
    [][/\ (SessionState(pc) \in Interactive) => (file' = file)
       /\ (file' # file) => (pc \in {"Create", "Write"})]_vars

\* a session that loaded the completed task of the hand-written file has
\* added a second task and is at the menu with the file as it was
C15_Witness ==
    /\ pc = "Menu"
    /\ file = HandWrittenFile
    /\ Len(tasks) = 2
    /\ tasks[1].done
    /\ ~tasks[2].done
    /\ tasks[2].due_date = <<"1">>

\* the three texts of a task
Fields(t) == <<t.name, t.desc, t.due_date>>

\* a is b with some of its elements left out
IsSubSeqOf(a, b) ==
    \E f \in [1..Len(a) -> 1..Len(b)] :
        /\ \A i \in 1..Len(a) : a[i] = b[f[i]]
        /\ \A i, j \in 1..Len(a) : i < j => f[i] < f[j]

\* C16: within a run no step changes the name, the description or the due
\* date of a task, and a task is done only if complete selected it: a step
\* that keeps the length keeps the three texts of every task and changes a
\* done flag only at the completion prompt, to true; a step that adds a task
\* keeps the others whole and adds one that is not done; a step that removes
\* tasks keeps the others whole.
C16_FieldsNeverChange ==
    [][(pc \notin Stopped)
        => /\ Len(tasks') <= Len(tasks) + 1
           /\ Len(tasks') = Len(tasks)
                => \A i \in 1..Len(tasks) :
                    /\ Fields(tasks'[i]) = Fields(tasks[i])
                    /\ tasks'[i].done # tasks[i].done
                        => (pc = "AwaitingIndexComplete" /\ tasks'[i].done)
           /\ Len(tasks') = Len(tasks) + 1
                => /\ pc = "AwaitingTaskFields"
                   /\ SubSeq(tasks', 1, Len(tasks)) = tasks
                   /\ ~tasks'[Len(tasks')].done
           /\ Len(tasks') < Len(tasks) => IsSubSeqOf(tasks', tasks)]_vars

\* a run that started with no file has added two tasks and completed the
\* first, which still has the three texts it was created with
C16_Witness ==
    /\ pc = "Menu"
    /\ file = NoFile
    /\ Len(tasks) = 2
    /\ tasks[1] = Task(<<QUOTE, "a">>, <<BACKSLASH, TAB, "b">>, <<"1">>, TRUE)
    /\ ~tasks[2].done

\* C17: viewing leaves the store as it is, in length, order and every field,
\* whatever the store holds: the menu line "1" keeps the store and stays at
\* the menu, and the listing printed for "3" and "4" before the index prompt
\* keeps the store; no step from the menu other than into the exit path or
\* through an add changes the store.
C17_ViewKeepsStore ==
    [][(pc = "Menu")
        => /\ \A raw \in MenuLines \cup {<<>>} :
                /\ MenuView(raw) => (SameTasks(tasks', tasks) /\ pc' = "Menu")
                /\ (MenuComplete(raw) \/ MenuDelete(raw))
                    => (SameTasks(tasks', tasks)
                        /\ SessionState(pc') = "AwaitingIndexSelection")
           /\ (pc' \in {"Menu", "AwaitingIndexComplete", "AwaitingIndexDelete",
                         "AwaitingTaskFields"})
                => (tasks' = tasks)]_vars

\* the listing was printed for "3" with two tasks in the store, one done
C17_Witness ==
    /\ pc = "AwaitingIndexComplete"
    /\ Len(tasks) = 2
    /\ tasks[1].done
    /\ ~tasks[2].done

\* the number of completed tasks in a store
DoneCount(ts) == Cardinality({i \in 1..Len(ts) : ts[i].done})

\* C18: within a run a done flag never goes back to false; completing a task
\* that is already done leaves the whole store as it is; and completed tasks
\* leave the store by delete or by the purge of the exit path only.
C18_DoneIsMonotonic ==
    [][(pc \notin Stopped)
        => /\ Len(tasks') = Len(tasks)
                => \A i \in 1..Len(tasks) : tasks[i].done => tasks'[i].done
           /\ (pc = "AwaitingIndexComplete")
                => \A p \in 1..Len(tasks), overflow_checks \in BOOLEAN :
                    (tasks[p].done /\ IndexInput(NumberLine(p), overflow_checks))
                        => (tasks' = tasks /\ pc' = "Menu")
           /\ DoneCount(tasks') < DoneCount(tasks)
                => \/ pc = "AwaitingIndexDelete"
                   \/ (pc = "Menu" /\ pc' = "Serialize")]_vars

\* both tasks of the store have been completed and the run is at the
\* completion prompt, where either may be selected again
C18_Witness ==
    /\ pc = "AwaitingIndexComplete"
    /\ Len(tasks) = 2
    /\ tasks[1].done
    /\ tasks[2].done
    /\ file = NoFile

\* C19: at end-of-input every read gives the empty line and the session goes
\* to the exit path instead of looping: a read that meets end-of-input at the
\* field prompts or at an index prompt returns to the menu, a session at a
\* prompt whose input has ended reaches the exit path, with the completed
\* tasks purged, and no step of the exit path reads input or repeats: each
\* moves on to the next step or writes more of the file.
C19_EndOfInputExits ==
    /\ [][/\ (pc \in {"AwaitingTaskFields", "AwaitingIndexComplete",
                       "AwaitingIndexDelete"} /\ eof')
                => (pc' = "Menu")
          /\ (pc \in ExitPath)
                => /\ eof' = eof
                   /\ \/ (pc = "Serialize" /\ pc' = "Create")
                      \/ (pc = "Create" /\ pc' \in {"Write", "panicked"})
                      \/ (pc = "Write" /\ pc' \in {"done", "panicked"})
                      \/ (pc = "Write" /\ pc' = "Write"
                            /\ Len(file') > Len(file)
                            /\ Len(file') <= Len(serialized_tasks))]_vars
    /\ (eof /\ SessionState(pc) \in Interactive)
            ~> (pc = "Serialize" /\ eof /\ DoneCount(tasks) = 0)

\* the input ended at the field prompts: the task of three empty texts was
\* added and the session is back at the menu
C19_Witness ==
    /\ pc = "Menu"
    /\ eof
    /\ Len(tasks) = 2
    /\ Fields(tasks[2]) = <<<<>>, <<>>, <<>>>>

=============================================================================
